---- MODULE Spec2Model ----
(***************************************************************************)
(* Credible Commitment Machine (src/src/enclave/ccm.ts) with its Merkle    *)
(* index and hashing helpers (src/src/shared/crypto.ts).                   *)
(*                                                                         *)
(* Hashes are modelled as injective encodings: a 32-byte hash is the       *)
(* sequence of the words that were hashed, between two bracket words; the  *)
(* all-zero hash is the one-word sequence <<0>>.  Hashes are ordered       *)
(* lexicographically (the code compares hex strings).                      *)
(* A signature is the pair (signer address, signed hash); recovery against *)
(* another hash yields an address nobody controls.                         *)
(***************************************************************************)
EXTENDS Integers, Sequences, FiniteSets, Bags, TLC

\* ------------------------------------------------------------------------
\* Bounds of the model
\* ------------------------------------------------------------------------
MaxLocks == 2
MaxTime == 2
\* leaves of a Merkle tree exercised on its own
MaxLeaves == 3
\* length of a UTC day in clock ticks (86400 s in the code, scaled)
DayLen == 2

\* ------------------------------------------------------------------------
\* Addresses
\* ------------------------------------------------------------------------
Owners == {"0xAB", "0xab", "0xcd"}
ZeroAddress == "0x00"
TokenContract == "0xc0"
JunkAddress == "0x??"
\* the standard ERC-4337 EntryPoint, 0x5FF1...2789
EntryPoint == "0x5f"

toLowerCase(a) == IF a = "0xAB" THEN "0xab" ELSE a

\* abiEncode of an 'address': the lower-cased hex digits as one word
AddrWord(a) ==
  CASE toLowerCase(a) = "0xab" -> 1
    [] toLowerCase(a) = "0xcd" -> 2
    [] toLowerCase(a) = "0xc0" -> 3
    [] toLowerCase(a) = "0xcc" -> 4
    [] toLowerCase(a) = "0x5f" -> 5
    [] toLowerCase(a) = "0x00" -> 0
    [] OTHER -> 9

\* the enclave's key pair and id, fixed by the constructor
EnclaveKey == "0xcc"
EnclaveId == <<7>>

\* ------------------------------------------------------------------------
\* Hashing and ABI encoding
\* ------------------------------------------------------------------------
Min(a, b) == IF a < b THEN a ELSE b

\* keccak256 as an injective function: the hashed words between two brackets
\* (-1 and -2; every encoded word is >= 0)
keccak256(data) == <<-1>> \o data \o <<-2>>

\* the strings the code hashes, as words
StrWord(s) ==
  CASE s = "EIP712Domain(string name,string version,uint256 chainId,address verifyingContract)" -> 11
    [] s = "CredibleCommitmentMachine" -> 12
    [] s = "1.0.0" -> 13
    [] s = "LockApproval(bytes32 lockId,address owner,bytes32 asset,uint256 amount,uint256 nonce,uint256 expiresAt,bytes32 fulfillmentHash)" -> 14
    [] s = "Cancel lock: " -> 15
    [] s = "Ethereum Signed Message:" -> 16
    [] OTHER -> 19

keccak256String(str) == keccak256(<<StrWord(str)>>)

\* '0x' followed by 64 zeros
ZeroHash == <<0>>

\* comparison of two hashes (the code compares their hex strings with <)
HashLess(a, b) ==
  \/ \E i \in 1..Min(Len(a), Len(b)) :
        /\ a[i] < b[i]
        /\ \A j \in 1..(i - 1) : a[j] = b[j]
  \/ /\ Len(a) < Len(b)
     /\ \A j \in 1..Len(a) : a[j] = b[j]

\* one value encoded under one type; a type abiEncode has no branch for
\* ('uint8', 'bytes4', 'string') contributes nothing
EncodeOne(type, value) ==
  CASE type = "address" -> <<AddrWord(value)>>
    [] type \in {"uint256", "int256"} -> <<value>>
    [] type = "bytes32" -> value
    [] type = "bool" -> <<IF value THEN 1 ELSE 0>>
    [] type = "bytes" -> <<Len(value)>> \o value
    [] OTHER -> << >>

RECURSIVE abiEncodeFrom(_, _, _)
abiEncodeFrom(i, types, values) ==
  IF i > Len(types) THEN << >>
  ELSE EncodeOne(types[i], values[i]) \o abiEncodeFrom(i + 1, types, values)

abiEncode(types, values) == abiEncodeFrom(1, types, values)

encodePacked(a, b) == a \o b

\* ------------------------------------------------------------------------
\* Asset and condition hashing
\* ------------------------------------------------------------------------
AssetKind(t) ==
  IF t = "native" THEN 0 ELSE IF t = "erc20" THEN 1 ELSE IF t = "erc721" THEN 2 ELSE 3

hashAsset(asset) ==
  keccak256(abiEncode(
    <<"uint256", "uint8", "address", "uint256">>,
    << asset.chainId,
       AssetKind(asset.assetType),
       IF asset.contractAddress = "" THEN ZeroAddress ELSE asset.contractAddress,
       asset.tokenId >>))

hashFulfillmentCondition(condition) ==
  keccak256(abiEncode(
    <<"uint256", "bytes32", "uint256", "address", "bytes32">>,
    << condition.targetChainId,
       hashAsset(condition.targetAsset),
       condition.targetAmount,
       condition.recipient,
       ZeroHash >>))

generateLockId(owner, asset, amount, nonce, timestamp) ==
  keccak256(abiEncode(
    <<"address", "bytes32", "uint256", "uint256", "uint256">>,
    <<owner, hashAsset(asset), amount, nonce, timestamp>>))

\* ------------------------------------------------------------------------
\* EIP-712
\* ------------------------------------------------------------------------
EIP712_DOMAIN_TYPEHASH ==
  keccak256String("EIP712Domain(string name,string version,uint256 chainId,address verifyingContract)")

hashDomain(domain) ==
  keccak256(abiEncode(
    <<"bytes32", "bytes32", "bytes32", "uint256", "address">>,
    << EIP712_DOMAIN_TYPEHASH,
       keccak256String(domain.name),
       keccak256String(domain.version),
       domain.chainId,
       domain.verifyingContract >>))

hashLockApproval(message) ==
  keccak256(abiEncode(
    <<"bytes32", "bytes32", "address", "bytes32", "uint256", "uint256", "uint256", "bytes32">>,
    << keccak256String("LockApproval(bytes32 lockId,address owner,bytes32 asset,uint256 amount,uint256 nonce,uint256 expiresAt,bytes32 fulfillmentHash)"),
       message.lockId,
       message.owner,
       message.asset,
       message.amount,
       message.nonce,
       message.expiresAt,
       message.fulfillmentHash >>))

\* keccak(0x1901 || domainSeparator || structHash); 6401 = 0x1901
hashTypedData(domain, message) ==
  keccak256(<<6401>> \o hashDomain(domain) \o hashLockApproval(message))

CCM_DOMAIN(chainId) ==
  [ name |-> "CredibleCommitmentMachine",
    version |-> "1.0.0",
    chainId |-> chainId,
    verifyingContract |-> ZeroAddress ]

\* the LockApproval message and its hash, recomputed from a stored lock
LockApprovalMessage(lock) ==
  [ lockId |-> lock.id,
    owner |-> lock.owner,
    asset |-> hashAsset(lock.asset),
    amount |-> lock.amount,
    nonce |-> lock.nonce,
    expiresAt |-> lock.expiresAt,
    fulfillmentHash |-> hashFulfillmentCondition(lock.fulfillmentCondition) ]

typedDataHash(lock) ==
  hashTypedData(CCM_DOMAIN(lock.asset.chainId), LockApprovalMessage(lock))

\* ------------------------------------------------------------------------
\* ECDSA
\* ------------------------------------------------------------------------
NoSignature == [signer |-> "", hash |-> << >>]
\* a 65-byte string that is no signature: recovery throws
MalformedSignature == [signer |-> "malformed", hash |-> << >>]

\* the 65 bytes of a signature, as words
SigBytes(signature) == <<AddrWord(signature.signer)>> \o signature.hash

\* the address of a private key; keys are named by their address
privateKeyToAddress(privateKey) == privateKey

signHash(messageHash, privateKey) ==
  [signer |-> privateKeyToAddress(privateKey), hash |-> messageHash]

\* a recovery that yields the signer whatever was signed
recoverAddressAnyHash(messageHash, signature) == signature.signer

\* recovery against the signed hash yields the signer; against any other
\* hash, an address nobody holds the key of
recoverAddress(messageHash, signature) ==
  IF signature.hash = messageHash THEN signature.signer ELSE JunkAddress

\* ------------------------------------------------------------------------
\* MerkleTree: [leaves, layers]
\* ------------------------------------------------------------------------
EmptyTree == [leaves |-> << >>, layers |-> << >>]

CombineNodes(left, right) ==
  IF HashLess(left, right) THEN keccak256(encodePacked(left, right))
                           ELSE keccak256(encodePacked(right, left))

NextLayer(currentLayer) ==
  [ k \in 1..((Len(currentLayer) + 1) \div 2) |->
      LET left == currentLayer[2 * k - 1]
          right == IF 2 * k <= Len(currentLayer) THEN currentLayer[2 * k] ELSE left
      IN CombineNodes(left, right) ]

RECURSIVE BuildLayers(_)
BuildLayers(layers) ==
  IF Len(layers[Len(layers)]) > 1
  THEN BuildLayers(Append(layers, NextLayer(layers[Len(layers)])))
  ELSE layers

buildTree(leaves) == BuildLayers(<<leaves>>)

getRoot(tree) ==
  IF Len(tree.layers) = 0 THEN ZeroHash
  ELSE tree.layers[Len(tree.layers)][1]

\* new MerkleTree(leaves)
NewMerkleTree(leaves) ==
  [leaves |-> leaves, layers |-> IF Len(leaves) > 0 THEN buildTree(leaves) ELSE << >>]

\* the sibling path of the leaf at index (0-based, as in the code), from
\* layer i (0-based) upwards; a sibling beyond the end of a layer is left out
RECURSIVE getProofFrom(_, _, _)
getProofFrom(tree, i, idx) ==
  IF i >= Len(tree.layers) - 1 THEN << >>
  ELSE LET layer == tree.layers[i + 1]
           siblingIdx == IF idx % 2 = 0 THEN idx + 1 ELSE idx - 1
       IN (IF siblingIdx < Len(layer) THEN <<layer[siblingIdx + 1]>> ELSE << >>)
            \o getProofFrom(tree, i + 1, idx \div 2)

getProof(tree, index) == getProofFrom(tree, 0, index)

\* the hash computed from a leaf along a proof, from proof element k on
RECURSIVE verifyProofFrom(_, _, _)
verifyProofFrom(computedHash, proof, k) ==
  IF k > Len(proof) THEN computedHash
  ELSE verifyProofFrom(CombineNodes(computedHash, proof[k]), proof, k + 1)

verifyProof(leaf, proof, root) == verifyProofFrom(leaf, proof, 1) = root

\* an insertion that keeps the old layers
addLeafNoRebuild(tree, leaf) ==
  [leaves |-> Append(tree.leaves, leaf), layers |-> tree.layers]

addLeaf(tree, leaf) ==
  LET leaves == Append(tree.leaves, leaf)
  IN [leaves |-> leaves, layers |-> buildTree(leaves)]

\* first index of leaf in leaves, 0 when absent (indexOf)
IndexOf(leaves, leaf) ==
  IF \E i \in 1..Len(leaves) : leaves[i] = leaf
  THEN CHOOSE i \in 1..Len(leaves) :
         /\ leaves[i] = leaf
         /\ \A j \in 1..(i - 1) : leaves[j] # leaf
  ELSE 0

\* what removeLeaf returns: whether the leaf was there
removeLeafReturns(tree, leaf) == IndexOf(tree.leaves, leaf) # 0

\* a removal that leaves the tree as it is
removeLeafKeep(tree, leaf) == tree

removeLeaf(tree, leaf) ==
  LET index == IndexOf(tree.leaves, leaf)
      leaves == [ k \in 1..(Len(tree.leaves) - 1) |->
                    IF k < index THEN tree.leaves[k] ELSE tree.leaves[k + 1] ]
  IN IF index = 0 THEN tree
     ELSE IF Len(leaves) > 0 THEN [leaves |-> leaves, layers |-> buildTree(leaves)]
     ELSE [leaves |-> leaves, layers |-> << >>]

\* ------------------------------------------------------------------------
\* Configuration: the EnclaveConfig the engine is constructed with
\* ------------------------------------------------------------------------
EngineConfig ==
  [ maxLockDuration  |-> 2,
    minLockDuration  |-> 1,
    supportedChains  |-> {1, 10},
    settlementBuffer |-> 1,
    riskLimits |->
      [ maxTotalLockedPerAccount |-> 3,
        maxSingleLockAmount      |-> 2,
        maxConcurrentLocks       |-> 1,
        maxDailyVolume           |-> 3 ] ]

\* the constructor's merge { ...DEFAULT_CONFIG, ...config }: every top-level
\* field of the input replaces the default's field whole
Construct(input) ==
  [ f \in DOMAIN EngineConfig \cup DOMAIN input |->
      IF f \in DOMAIN input THEN input[f] ELSE EngineConfig[f] ]

\* ------------------------------------------------------------------------
\* State
\* ------------------------------------------------------------------------
\* the identity the constructor gives the enclave: a fresh key, its address,
\* a fresh id, and the time of the boot
NewIdentity(bootTime) ==
  [ enclaveId |-> EnclaveId,
    privateKey |-> EnclaveKey,
    publicKey |-> privateKeyToAddress(EnclaveKey),
    bootTime |-> bootTime ]

VARIABLES
  config,          \* this.config, set by the constructor
  enclave,         \* state.enclaveId, privateKey, publicKey, bootTime
  now,             \* the clock behind getSecureTime() and new Date()
  locks,           \* state.locks, in insertion order
  nonces,          \* state.nonces
  stateRoot,       \* state.stateRoot
  lockMerkleTree,  \* the MerkleTree over lock ids
  dailyVolume,     \* date -> volume
  activated,       \* history: ids in the order signLock activated them
  last,            \* history: the last operation and its outcome
  response,        \* the value the last operation returned
  returned         \* history: per lock id, the releases returned so far

vars == <<config, enclave, now, locks, nonces, stateRoot, lockMerkleTree, dailyVolume, activated,
          last, response, returned>>

\* everything the engine holds
enclaveState == <<locks, nonces, stateRoot, lockMerkleTree, dailyVolume>>

getSecureTime == now

\* nothing returned: the call threw, or no call was made yet
NoResponse == [op |-> "none"]

\* new Date().toISOString().split('T')[0]
Today == now \div DayLen

Dates == 0..(MaxTime \div DayLen + 1)

\* position of the entry with this id in the map, 0 when there is none
LockIndex(lockId) ==
  IF \E i \in 1..Len(locks) : locks[i].id = lockId
  THEN CHOOSE i \in 1..Len(locks) : locks[i].id = lockId
  ELSE 0

\* Map.set: replaces the entry of the id in place, or appends a new one
\* a map that keeps the old entry and adds the new one
MapSetAppend(map, lock) == Append(map, lock)

MapSet(map, lock) ==
  IF \E i \in 1..Len(map) : map[i].id = lock.id
  THEN [ i \in 1..Len(map) |-> IF map[i].id = lock.id THEN lock ELSE map[i] ]
  ELSE Append(map, lock)

RECURSIVE SumAmounts(_)
SumAmounts(ls) ==
  IF Len(ls) = 0 THEN 0 ELSE ls[1].amount + SumAmounts(Tail(ls))

Init ==
  /\ config = EngineConfig
  /\ now = 0
  /\ enclave = NewIdentity(0)
  /\ locks = << >>
  /\ nonces = [o \in Owners |-> 0]
  /\ stateRoot = ZeroHash
  /\ lockMerkleTree = EmptyTree
  /\ dailyVolume = [d \in Dates |-> 0]
  /\ activated = << >>
  /\ last = [op |-> "init", err |-> "ok"]
  /\ response = NoResponse
  /\ returned = [userOps |-> EmptyBag, cancellations |-> EmptyBag]

\* ------------------------------------------------------------------------
\* Nonces
\* ------------------------------------------------------------------------
\* a nonce that is handed out without being recorded
getNextNonceNotStored(owner) ==
  [next |-> nonces[toLowerCase(owner)] + 1, nonces |-> nonces]

getNextNonceCaseSensitive(owner) ==
  [next |-> nonces[owner] + 1, nonces |-> [nonces EXCEPT ![owner] = nonces[owner] + 1]]

getNextNonce(owner) ==
  LET current == nonces[toLowerCase(owner)]
      next == current + 1
  IN [next |-> next, nonces |-> [nonces EXCEPT ![toLowerCase(owner)] = next]]

\* ------------------------------------------------------------------------
\* Validation: the error thrown, or "ok"
\* ------------------------------------------------------------------------
validateAsset(asset) ==
  IF asset.chainId \notin config.supportedChains THEN "UnsupportedChain"
  ELSE IF asset.assetType \notin {"native", "erc20", "erc721", "erc1155"} THEN "InvalidAssetType"
  ELSE IF asset.assetType # "native" /\ asset.contractAddress = "" THEN "ContractAddressRequired"
  ELSE "ok"

\* value > riskLimits[field] and value >= riskLimits[field]; a comparison
\* with a field the configuration lacks (undefined) is false
ExceedsLimit(value, field) ==
  field \in DOMAIN config.riskLimits /\ value > config.riskLimits[field]

ReachesLimit(value, field) ==
  field \in DOMAIN config.riskLimits /\ value >= config.riskLimits[field]

\* an amount check that also rejects the limit itself
validateAmountBelowLimit(amount) ==
  IF amount <= 0 THEN "AmountNotPositive"
  ELSE IF ReachesLimit(amount, "maxSingleLockAmount") THEN "AmountExceedsSingleLockLimit"
  ELSE "ok"

validateAmount(amount) ==
  IF amount <= 0 THEN "AmountNotPositive"
  ELSE IF ExceedsLimit(amount, "maxSingleLockAmount") THEN "AmountExceedsSingleLockLimit"
  ELSE "ok"

validateDuration(expiresIn) ==
  IF expiresIn < config.minLockDuration THEN "DurationTooShort"
  ELSE IF expiresIn > config.maxLockDuration THEN "DurationTooLong"
  ELSE "ok"

\* risk limits that allow one lock more than maxConcurrentLocks
validateRiskLimitsOneMore(owner, amount) ==
  LET ownerLocks == SelectSeq(locks, LAMBDA l :
                      toLowerCase(l.owner) = toLowerCase(owner) /\ l.status = "ACTIVE")
      totalLocked == SumAmounts(ownerLocks)
      todayVolume == dailyVolume[Today]
  IN IF ExceedsLimit(Len(ownerLocks), "maxConcurrentLocks") THEN "TooManyConcurrentLocks"
     ELSE IF ExceedsLimit(totalLocked + amount, "maxTotalLockedPerAccount")
       THEN "TotalLockedExceedsLimit"
     ELSE IF ExceedsLimit(todayVolume + amount, "maxDailyVolume")
       THEN "DailyVolumeExceeded"
     ELSE "ok"

validateRiskLimits(owner, amount) ==
  LET ownerLocks == SelectSeq(locks, LAMBDA l :
                      toLowerCase(l.owner) = toLowerCase(owner) /\ l.status = "ACTIVE")
      totalLocked == SumAmounts(ownerLocks)
      todayVolume == dailyVolume[Today]
  IN IF ReachesLimit(Len(ownerLocks), "maxConcurrentLocks") THEN "TooManyConcurrentLocks"
     ELSE IF ExceedsLimit(totalLocked + amount, "maxTotalLockedPerAccount")
       THEN "TotalLockedExceedsLimit"
     ELSE IF ExceedsLimit(todayVolume + amount, "maxDailyVolume")
       THEN "DailyVolumeExceeded"
     ELSE "ok"

\* createLock validating the target asset before everything else
CreateLockErrorTargetFirst(request) ==
  IF validateAsset(request.fulfillmentCondition.targetAsset) # "ok"
    THEN validateAsset(request.fulfillmentCondition.targetAsset)
  ELSE IF validateAsset(request.asset) # "ok" THEN validateAsset(request.asset)
  ELSE IF validateAmount(request.amount) # "ok" THEN validateAmount(request.amount)
  ELSE IF validateDuration(request.expiresIn) # "ok" THEN validateDuration(request.expiresIn)
  ELSE validateRiskLimits(request.owner, request.amount)

\* the first check of createLock that throws
CreateLockError(request) ==
  IF validateAsset(request.asset) # "ok" THEN validateAsset(request.asset)
  ELSE IF validateAmount(request.amount) # "ok" THEN validateAmount(request.amount)
  ELSE IF validateDuration(request.expiresIn) # "ok" THEN validateDuration(request.expiresIn)
  ELSE IF validateRiskLimits(request.owner, request.amount) # "ok"
    THEN validateRiskLimits(request.owner, request.amount)
  ELSE validateAsset(request.fulfillmentCondition.targetAsset)

\* ------------------------------------------------------------------------
\* Operations.  A call that throws records the error in last.
\* ------------------------------------------------------------------------
Throw(op, err) ==
  /\ last' = [op |-> op, err |-> err]
  /\ response' = NoResponse
  /\ UNCHANGED <<config, enclave, now, locks, nonces, stateRoot, lockMerkleTree, dailyVolume, activated,
                 returned>>

NewLock(request, nonce) ==
  [ id |-> generateLockId(request.owner, request.asset, request.amount, nonce, getSecureTime),
    owner |-> request.owner,
    asset |-> request.asset,
    amount |-> request.amount,
    lockedAt |-> getSecureTime,
    expiresAt |-> getSecureTime + request.expiresIn,
    nonce |-> nonce,
    fulfillmentCondition |-> request.fulfillmentCondition,
    status |-> "PENDING",
    userSignature |-> NoSignature,
    ccmSignature |-> NoSignature ]

\* what createLock returns: the lock, the typed data to sign, the signing
\* window
CreateLockResponse(lock) ==
  [ op |-> "createLock",
    lock |-> lock,
    typedDataToSign |->
      [ domain |-> CCM_DOMAIN(lock.asset.chainId),
        primaryType |-> "LockApproval",
        message |-> LockApprovalMessage(lock) ],
    expirationTimestamp |-> getSecureTime + 30 ]

\* createLock taking the nonce before it validates
CreateLockNonceFirst(request) ==
  LET err == CreateLockError(request)
      n == getNextNonce(request.owner)
  IN IF err # "ok"
     THEN /\ nonces' = n.nonces
          /\ last' = [op |-> "createLock", err |-> err]
          /\ response' = NoResponse
          /\ UNCHANGED <<config, enclave, now, locks, stateRoot, lockMerkleTree, dailyVolume, activated,
                         returned>>
     ELSE /\ Len(locks) < MaxLocks
          /\ getSecureTime + request.expiresIn <= MaxTime
          /\ nonces' = n.nonces
          /\ locks' = MapSet(locks, NewLock(request, n.next))
          /\ last' = [op |-> "createLock", err |-> "ok"]
          /\ response' = CreateLockResponse(NewLock(request, n.next))
          /\ UNCHANGED <<config, enclave, now, stateRoot, lockMerkleTree, dailyVolume, activated, returned>>

CreateLock(request) ==
  LET err == CreateLockError(request)
      n == getNextNonce(request.owner)
  IN IF err # "ok" THEN Throw("createLock", err)
     ELSE /\ Len(locks) < MaxLocks
          /\ getSecureTime + request.expiresIn <= MaxTime
          /\ nonces' = n.nonces
          /\ locks' = MapSet(locks, NewLock(request, n.next))
          /\ last' = [op |-> "createLock", err |-> "ok"]
          /\ response' = CreateLockResponse(NewLock(request, n.next))
          /\ UNCHANGED <<config, enclave, now, stateRoot, lockMerkleTree, dailyVolume, activated, returned>>

\* an attestation that carries no signature
generateCCMAttestationUnsigned(lock) ==
  [ enclaveId |-> enclave.enclaveId,
    timestamp |-> getSecureTime,
    commitmentHash |-> keccak256(<<getSecureTime>> \o lock.id),
    signature |-> NoSignature ]

\* an attestation issued under an id made up for the occasion
generateCCMAttestationFreshId(lock) ==
  LET freshId == keccak256(<<getSecureTime>>)
      commitmentHash ==
        keccak256(abiEncode(<<"bytes32", "uint256", "bytes32">>,
                            <<freshId, getSecureTime, lock.id>>))
  IN [ enclaveId |-> freshId,
       timestamp |-> getSecureTime,
       commitmentHash |-> commitmentHash,
       signature |-> signHash(commitmentHash, enclave.privateKey) ]

generateCCMAttestation(lock) ==
  LET lockDataHash ==
        keccak256(abiEncode(
          <<"bytes32", "address", "bytes32", "uint256", "uint256", "uint256", "bytes32">>,
          << lock.id, lock.owner, hashAsset(lock.asset), lock.amount, lock.nonce,
             lock.expiresAt, hashFulfillmentCondition(lock.fulfillmentCondition) >>))
      commitmentHash ==
        keccak256(abiEncode(<<"bytes32", "uint256", "bytes32">>,
                            <<enclave.enclaveId, getSecureTime, lockDataHash>>))
  IN [ enclaveId |-> enclave.enclaveId,
       timestamp |-> getSecureTime,
       commitmentHash |-> commitmentHash,
       signature |-> signHash(commitmentHash, enclave.privateKey) ]

\* the commitment carrying the root stored when the operation began
generateCommitmentStale(state, lock, attestation) ==
  [ lockId |-> lock.id,
    version |-> 1,
    chainId |-> lock.asset.chainId,
    smartAccount |-> lock.owner,
    lockedAsset |-> lock.asset,
    lockedAmount |-> lock.amount,
    createdAt |-> lock.lockedAt,
    expiresAt |-> lock.expiresAt,
    settlementDeadline |-> lock.expiresAt + config.settlementBuffer,
    fulfillmentCondition |-> lock.fulfillmentCondition,
    nonce |-> lock.nonce,
    stateRoot |-> stateRoot,
    userSignatureHash |-> keccak256(SigBytes(lock.userSignature)),
    ccmAttestation |-> attestation ]

\* state is the engine state at the time of the call (this.state)
generateCommitment(state, lock, attestation) ==
  [ lockId |-> lock.id,
    version |-> 1,
    chainId |-> lock.asset.chainId,
    smartAccount |-> lock.owner,
    lockedAsset |-> lock.asset,
    lockedAmount |-> lock.amount,
    createdAt |-> lock.lockedAt,
    expiresAt |-> lock.expiresAt,
    settlementDeadline |-> lock.expiresAt + config.settlementBuffer,
    fulfillmentCondition |-> lock.fulfillmentCondition,
    nonce |-> lock.nonce,
    stateRoot |-> state.stateRoot,
    userSignatureHash |-> keccak256(SigBytes(lock.userSignature)),
    ccmAttestation |-> attestation ]

\* the signer check of signLock and cancelLock
SignerUnchecked(signer, owner) == TRUE

SignerIsOwner(signer, owner) == toLowerCase(signer) = toLowerCase(owner)

\* the status signLock accepts
SignableAny(status) == TRUE

Signable(status) == status = "PENDING"

SignLock(request) ==
  LET i == LockIndex(request.lockId)
      lock == locks[i]
      recoveredSigner == recoverAddress(typedDataHash(lock), request.signature)
      signed == [lock EXCEPT !.userSignature = request.signature]
      ccmAttestation == generateCCMAttestation(signed)
      active == [signed EXCEPT !.ccmSignature = ccmAttestation.signature,
                               !.status = "ACTIVE"]
      tree == addLeaf(lockMerkleTree, lock.id)
  IN IF i = 0 THEN Throw("signLock", "LockNotFound")
     ELSE IF ~Signable(lock.status) THEN Throw("signLock", "InvalidLockStatus")
     ELSE IF request.signature = MalformedSignature
       THEN Throw("signLock", "SignatureRecoveryFailed")
     ELSE IF ~SignerIsOwner(recoveredSigner, lock.owner)
       THEN Throw("signLock", "InvalidSignature")
     ELSE /\ locks' = MapSet(locks, active)
          /\ lockMerkleTree' = tree
          /\ stateRoot' = getRoot(tree)
          /\ dailyVolume' = [dailyVolume EXCEPT ![Today] = dailyVolume[Today] + lock.amount]
          /\ activated' = Append(activated, lock.id)
          /\ last' = [op |-> "signLock", err |-> "ok"]
          /\ response' =
               [ op |-> "signLock",
                 commitment |-> generateCommitment([stateRoot |-> getRoot(tree)],
                                                   active, ccmAttestation),
                 status |-> active.status ]
          /\ UNCHANGED <<config, enclave, now, nonces, returned>>

verifyFulfillmentProof(lock, proof) ==
  IF proof.transactionHash # 66 THEN "InvalidTransactionHash"
  ELSE IF proof.blockHash # 66 THEN "InvalidBlockHash"
  ELSE "ok"

\* the call data, or throws for a kind with no settlement
encodeTransferCalldata(asset, recipient, amount) ==
  IF asset.assetType = "native"
  THEN [ throws |-> FALSE,
         data |-> abiEncode(<<"bytes4", "address", "uint256", "bytes">>,
                            <<"0xb61d27f6", recipient, amount, << >> >>) ]
  ELSE IF asset.assetType = "erc20"
  THEN [ throws |-> FALSE,
         data |-> abiEncode(<<"bytes4", "address", "uint256", "bytes">>,
                    << "0xb61d27f6", asset.contractAddress, 0,
                       abiEncode(<<"bytes4", "address", "uint256">>,
                                 <<"0xa9059cbb", recipient, amount>>) >>) ]
  ELSE [throws |-> TRUE, data |-> << >>]

hashUserOp(userOp, chainId) ==
  LET packed ==
        abiEncode(
          << "address", "uint256", "bytes32", "bytes32", "uint256", "uint256", "uint256",
             "uint256", "uint256", "bytes32" >>,
          << userOp.sender, userOp.nonce, keccak256(userOp.initCode),
             keccak256(userOp.callData), userOp.callGasLimit, userOp.verificationGasLimit,
             userOp.preVerificationGas, userOp.maxFeePerGas, userOp.maxPriorityFeePerGas,
             keccak256(userOp.paymasterAndData) >>)
      userOpHash == keccak256(packed)
  IN keccak256(abiEncode(<<"bytes32", "address", "uint256">>,
                         <<userOpHash, EntryPoint, chainId>>))

\* userSig followed by ccmSig without its '0x': the two 65-byte signatures
\* one after the other, 130 bytes
combineSignatures(userSig, ccmSig) == <<userSig, ccmSig>>

\* the settlement UserOperation, or throws when the call data does
generateSettlementUserOp(lock) ==
  LET transferCalldata ==
        encodeTransferCalldata(lock.asset, lock.fulfillmentCondition.recipient, lock.amount)
      userOp ==
        [ sender |-> lock.owner,
          nonce |-> lock.nonce,
          initCode |-> << >>,
          callData |-> transferCalldata.data,
          callGasLimit |-> 100000,
          verificationGasLimit |-> 100000,
          preVerificationGas |-> 21000,
          maxFeePerGas |-> 1000000000,
          maxPriorityFeePerGas |-> 1000000000,
          paymasterAndData |-> << >>,
          signature |-> << >> ]
      ccmSignature == signHash(hashUserOp(userOp, lock.asset.chainId), enclave.privateKey)
  IN [ throws |-> transferCalldata.throws,
       userOp |-> [userOp EXCEPT !.signature = combineSignatures(lock.userSignature, ccmSignature)] ]

\* ResourceLockValidator (the on-chain contract): the hash behind the
\* "\x19Ethereum Signed Message:\n32" prefix
toEthSignedMessageHash(hash) ==
  keccak256(<<StrWord("Ethereum Signed Message:"), 32>> \o hash)

\* ecrecover: the signer for the hash that was signed, some other address
\* for any other hash
recoverSigner(hash, signature) ==
  IF signature.hash = hash THEN signature.signer ELSE JunkAddress

\* validateDualSignature of a validator deployed with ccmPublicKey: TRUE, or
\* the revert
validateDualSignature(ccmPublicKey, userOpHash, signature) ==
  IF Len(signature) # 2 THEN "InvalidSignatureLength"
  ELSE LET ccmSig == signature[2]
           ethSignedHash == toEthSignedMessageHash(userOpHash)
           ccmSigner == recoverSigner(ethSignedHash, ccmSig)
       IN IF AddrWord(ccmSigner) # AddrWord(ccmPublicKey) THEN "InvalidSignature"
          ELSE "true"

\* the status verifyFulfillment accepts
FulfillableAny(status) == TRUE

Fulfillable(status) == status = "ACTIVE"

VerifyFulfillment(request) ==
  LET i == LockIndex(request.lockId)
      lock == locks[i]
      proofError == verifyFulfillmentProof(lock, request.fulfillmentProof)
      fulfilled == [lock EXCEPT !.status = "FULFILLED"]
      settlement == generateSettlementUserOp(fulfilled)
      attestation == generateCCMAttestation(fulfilled)
      commitment == generateCommitment([stateRoot |-> stateRoot], fulfilled, attestation)
  IN IF i = 0 THEN Throw("verifyFulfillment", "LockNotFound")
     ELSE IF ~Fulfillable(lock.status) THEN Throw("verifyFulfillment", "InvalidLockStatus")
     ELSE IF getSecureTime > lock.expiresAt
       THEN /\ locks' = MapSet(locks, [lock EXCEPT !.status = "EXPIRED"])
            /\ last' = [op |-> "verifyFulfillment", err |-> "LockExpired"]
            /\ response' = NoResponse
            /\ UNCHANGED <<config, enclave, now, nonces, stateRoot, lockMerkleTree, dailyVolume, activated,
                           returned>>
     ELSE IF proofError # "ok" THEN Throw("verifyFulfillment", proofError)
     ELSE IF settlement.throws
       THEN /\ locks' = MapSet(locks, fulfilled)
            /\ last' = [op |-> "verifyFulfillment", err |-> "UnsupportedAssetType"]
            /\ response' = NoResponse
            /\ UNCHANGED <<config, enclave, now, nonces, stateRoot, lockMerkleTree, dailyVolume, activated,
                           returned>>
     ELSE /\ locks' = MapSet(locks, fulfilled)
          /\ last' = [op |-> "verifyFulfillment", err |-> "ok"]
          /\ response' = [ op |-> "verifyFulfillment",
                           settlementUserOp |-> settlement.userOp,
                           commitment |-> commitment ]
          /\ returned' = [returned EXCEPT !.userOps = @ (+) SetToBag({lock.id})]
          /\ UNCHANGED <<config, enclave, now, nonces, stateRoot, lockMerkleTree, dailyVolume, activated>>

\* a cancellation message that does not name the lock
CancelMessageAnyLock(lockId) ==
  keccak256(abiEncode(<<"string">>, <<"CANCEL">>))

CancelMessage(lockId) ==
  keccak256(abiEncode(<<"bytes32", "string">>, <<lockId, "CANCEL">>))

\* the statuses cancelLock accepts
CancellableAny(status) == TRUE

Cancellable(status) == status = "ACTIVE" \/ status = "PENDING"

CancelLock(lockId, userSignature) ==
  LET i == LockIndex(lockId)
      lock == locks[i]
      signer == recoverAddress(CancelMessage(lockId), userSignature)
      tree == removeLeaf(lockMerkleTree, lockId)
  IN IF i = 0 THEN Throw("cancelLock", "LockNotFound")
     ELSE IF ~Cancellable(lock.status)
       THEN Throw("cancelLock", "InvalidLockStatus")
     ELSE IF userSignature = MalformedSignature
       THEN Throw("cancelLock", "SignatureRecoveryFailed")
     ELSE IF ~SignerIsOwner(signer, lock.owner)
       THEN Throw("cancelLock", "InvalidCancellationSignature")
     ELSE /\ locks' = MapSet(locks, [lock EXCEPT !.status = "CANCELLED"])
          /\ lockMerkleTree' = tree
          /\ stateRoot' = getRoot(tree)
          /\ last' = [op |-> "cancelLock", err |-> "ok"]
          /\ response' =
               [ op |-> "cancelLock",
                 enclaveId |-> enclave.enclaveId,
                 operation |-> "CANCEL",
                 timestamp |-> getSecureTime,
                 dataHash |-> keccak256(abiEncode(<<"bytes32", "uint8">>,
                                                  <<lockId, "CANCELLED">>)),
                 signature |-> signHash(CancelMessage(lockId), enclave.privateKey) ]
          /\ returned' = [returned EXCEPT !.cancellations = @ (+) SetToBag({lockId})]
          /\ UNCHANGED <<config, enclave, now, nonces, dailyVolume, activated>>

\* the loop with the comparison now >= expiresAt
RECURSIVE CleanupFromInclusive(_, _)
CleanupFromInclusive(i, acc) ==
  IF i > Len(acc.locks) THEN acc
  ELSE LET lock == acc.locks[i]
       IN IF lock.status = "ACTIVE" /\ getSecureTime >= lock.expiresAt
          THEN CleanupFromInclusive(i + 1,
                 [ locks |-> [acc.locks EXCEPT ![i].status = "EXPIRED"],
                   tree |-> removeLeaf(acc.tree, lock.id),
                   cleaned |-> acc.cleaned + 1 ])
          ELSE CleanupFromInclusive(i + 1, acc)

\* the loop of cleanupExpiredLocks from entry i on; acc = [locks, tree, cleaned]
RECURSIVE CleanupFrom(_, _)
CleanupFrom(i, acc) ==
  IF i > Len(acc.locks) THEN acc
  ELSE LET lock == acc.locks[i]
       IN IF lock.status = "ACTIVE" /\ getSecureTime > lock.expiresAt
          THEN CleanupFrom(i + 1,
                 [ locks |-> [acc.locks EXCEPT ![i].status = "EXPIRED"],
                   tree |-> removeLeaf(acc.tree, lock.id),
                   cleaned |-> acc.cleaned + 1 ])
          ELSE CleanupFrom(i + 1, acc)

\* the sweep that never refreshes the state root
CleanupExpiredLocksStaleRoot ==
  LET r == CleanupFrom(1, [locks |-> locks, tree |-> lockMerkleTree, cleaned |-> 0])
  IN /\ locks' = r.locks
     /\ lockMerkleTree' = r.tree
     /\ stateRoot' = stateRoot
     /\ last' = [op |-> "cleanupExpiredLocks", err |-> "ok"]
     /\ response' = [op |-> "cleanupExpiredLocks", cleaned |-> r.cleaned]
     /\ UNCHANGED <<config, enclave, now, nonces, dailyVolume, activated, returned>>

CleanupExpiredLocks ==
  LET r == CleanupFrom(1, [locks |-> locks, tree |-> lockMerkleTree, cleaned |-> 0])
  IN /\ locks' = r.locks
     /\ lockMerkleTree' = r.tree
     /\ stateRoot' = IF r.cleaned > 0 THEN getRoot(r.tree) ELSE stateRoot
     /\ last' = [op |-> "cleanupExpiredLocks", err |-> "ok"]
     /\ response' = [op |-> "cleanupExpiredLocks", cleaned |-> r.cleaned]
     /\ UNCHANGED <<config, enclave, now, nonces, dailyVolume, activated, returned>>

\* the clock advances
Tick ==
  /\ now < MaxTime
  /\ now' = now + 1
  /\ UNCHANGED <<config, enclave, locks, nonces, stateRoot, lockMerkleTree, dailyVolume, activated,
                 last, response, returned>>

\* ------------------------------------------------------------------------
\* Inputs of the calls
\* ------------------------------------------------------------------------
NativeAsset == [chainId |-> 1, assetType |-> "native", contractAddress |-> "", tokenId |-> 0]
NftAsset == [chainId |-> 1, assetType |-> "erc721", contractAddress |-> TokenContract, tokenId |-> 1]
UnsupportedChainAsset == [chainId |-> 5, assetType |-> "native", contractAddress |-> "", tokenId |-> 0]
UnknownTypeAsset == [chainId |-> 1, assetType |-> "erc777", contractAddress |-> TokenContract, tokenId |-> 0]
NoContractAsset == [chainId |-> 1, assetType |-> "erc20", contractAddress |-> "", tokenId |-> 0]

Condition(targetAsset) ==
  [ targetChainId |-> 10,
    targetAsset |-> targetAsset,
    targetAmount |-> 1,
    recipient |-> "0xcd" ]

BaseRequest ==
  [ owner |-> "0xAB", asset |-> NativeAsset, amount |-> 1, expiresIn |-> config.minLockDuration,
    fulfillmentCondition |-> Condition(NativeAsset) ]

\* requests that pass every static check
ValidRequests ==
  { BaseRequest,
    [BaseRequest EXCEPT !.owner = "0xab", !.amount = config.riskLimits.maxSingleLockAmount],
    [BaseRequest EXCEPT !.owner = "0xcd", !.asset = NftAsset,
                        !.amount = config.riskLimits.maxSingleLockAmount,
                        !.expiresIn = config.maxLockDuration] }

\* requests that fail one static check: the source asset, the amount, the
\* duration, or the target asset
InvalidRequests ==
     { [BaseRequest EXCEPT !.asset = a] :
         a \in {UnsupportedChainAsset, UnknownTypeAsset} }
  \cup { [BaseRequest EXCEPT !.amount = a] :
         a \in {0, config.riskLimits.maxSingleLockAmount + 1} }
  \cup { [BaseRequest EXCEPT !.expiresIn = d] :
         d \in {config.minLockDuration - 1, config.maxLockDuration + 1} }
  \cup { [BaseRequest EXCEPT !.fulfillmentCondition = Condition(NoContractAsset)] }

Requests == ValidRequests \cup InvalidRequests

\* fulfillment proofs: the lengths of transactionHash and blockHash
Proofs ==
  { [transactionHash |-> 66, blockHash |-> 66],
    [transactionHash |-> 64, blockHash |-> 66],
    [transactionHash |-> 66, blockHash |-> 0] }

\* the keys users sign with, named by their (lower-case) address
Keys == {"0xab", "0xcd"}

\* PrivateKeySigner.signMessage of the client SDK: signs the hash of the
\* message behind the "\x19Ethereum Signed Message:\n" prefix and its length
signMessage(message, privateKey) ==
  signHash(keccak256(<<StrWord("Ethereum Signed Message:"), Len(message)>> \o message),
           privateKey)

\* the text ResourceLockClient.cancelLock signs: `Cancel lock: ${lockId}`
ClientCancelText(lockId) == <<StrWord("Cancel lock: ")>> \o lockId

\* the request ResourceLockClient.cancelLock sends with the signer of a key
ClientCancelRequest(lockId, privateKey) ==
  [lockId |-> lockId, signature |-> signMessage(ClientCancelText(lockId), privateKey)]

\* an id no lock has
UnknownLockId == keccak256(<<0>>)

\* what a caller may present as a signature for the lock at position i: a
\* malformed one, signatures by either key over this lock's approval hash
\* and cancellation message, signatures by the owner's key over those of
\* another lock, and the signature the client SDK makes to cancel the lock
SignaturesFor(i) ==
  {MalformedSignature}
    \cup { ClientCancelRequest(locks[i].id, toLowerCase(locks[i].owner)).signature }
    \cup { signHash(typedDataHash(locks[i]), k) : k \in Keys }
    \cup { signHash(CancelMessage(locks[i].id), k) : k \in Keys }
    \cup { signHash(typedDataHash(locks[j]), toLowerCase(locks[i].owner)) :
             j \in 1..Len(locks) \ {i} }
    \cup { signHash(CancelMessage(locks[j].id), toLowerCase(locks[i].owner)) :
             j \in 1..Len(locks) \ {i} }

Next ==
  \/ \E request \in Requests : CreateLock(request)
  \/ \E i \in 1..Len(locks) : \E signature \in SignaturesFor(i) :
       SignLock([lockId |-> locks[i].id, signature |-> signature])
  \/ SignLock([lockId |-> UnknownLockId, signature |-> MalformedSignature])
  \/ \E i \in 1..Len(locks) : \E proof \in Proofs :
       VerifyFulfillment([lockId |-> locks[i].id, fulfillmentProof |-> proof])
  \/ \E proof \in Proofs :
       VerifyFulfillment([lockId |-> UnknownLockId, fulfillmentProof |-> proof])
  \/ \E i \in 1..Len(locks) : \E signature \in SignaturesFor(i) :
       CancelLock(locks[i].id, signature)
  \/ CancelLock(UnknownLockId, MalformedSignature)
  \/ CleanupExpiredLocks
  \/ Tick

Spec == Init /\ [][Next]_vars

\* Liveness is checked over the runs in which the bounded clock outlives
\* every lock (each lock's expiresAt lies before the last tick), with the
\* maintenance timer of startServer (setInterval around cleanupExpiredLocks)
\* and the clock both weakly fair.
ExpiryObservable == \A i \in 1..Len(locks) : locks[i].expiresAt < MaxTime

LiveNext ==
  \/ \E request \in Requests : CreateLock(request) /\ ExpiryObservable'
  \/ \E i \in 1..Len(locks) : \E signature \in SignaturesFor(i) :
       SignLock([lockId |-> locks[i].id, signature |-> signature])
  \/ SignLock([lockId |-> UnknownLockId, signature |-> MalformedSignature])
  \/ \E i \in 1..Len(locks) : \E proof \in Proofs :
       VerifyFulfillment([lockId |-> locks[i].id, fulfillmentProof |-> proof])
  \/ \E proof \in Proofs :
       VerifyFulfillment([lockId |-> UnknownLockId, fulfillmentProof |-> proof])
  \/ \E i \in 1..Len(locks) : \E signature \in SignaturesFor(i) :
       CancelLock(locks[i].id, signature)
  \/ CancelLock(UnknownLockId, MalformedSignature)
  \/ CleanupExpiredLocks
  \/ Tick

LiveSpec ==
  Init /\ [][LiveNext]_vars /\ WF_vars(CleanupExpiredLocks) /\ WF_vars(Tick)

\* ------------------------------------------------------------------------
\* State queries and the boot attestation: what each returns
\* ------------------------------------------------------------------------
Undefined == [op |-> "undefined"]

getLock(lockId) ==
  IF LockIndex(lockId) = 0 THEN Undefined ELSE locks[LockIndex(lockId)]

\* an owner match that distinguishes upper and lower case
getActiveLocksCaseSensitive(owner) ==
  SelectSeq(locks, LAMBDA l : l.owner = owner /\ l.status = "ACTIVE")

getActiveLocks(owner) ==
  SelectSeq(locks, LAMBDA l :
    toLowerCase(l.owner) = toLowerCase(owner) /\ l.status = "ACTIVE")

getLockedBalance(owner, asset) ==
  SumAmounts(SelectSeq(getActiveLocks(owner), LAMBDA l : hashAsset(l.asset) = hashAsset(asset)))

getStateRoot == stateRoot

getEnclavePublicKey == enclave.publicKey

getEnclaveId == enclave.enclaveId

generateBootAttestation ==
  LET attestationData == abiEncode(<<"bytes32", "address", "uint256">>,
                                   <<enclave.enclaveId, enclave.publicKey, enclave.bootTime>>)
      dataHash == keccak256(attestationData)
  IN [ enclaveId |-> enclave.enclaveId,
       publicKey |-> enclave.publicKey,
       bootTime |-> enclave.bootTime,
       codeHash |-> keccak256String("enclave-binary-v1.0.0"),
       awsAttestationDocument |->
         abiEncode(<<"bytes32", "bytes32", "uint256">>,
                   <<enclave.enclaveId, dataHash, enclave.bootTime>>),
       signature |-> signHash(dataHash, enclave.privateKey) ]

\* a query: the call and its arguments, and the value it returns, go to
\* response; nothing is written
Query(call, result) ==
  /\ last' = [op |-> call.op, err |-> "ok"]
  /\ response' = [op |-> call.op, call |-> call, result |-> result]
  /\ UNCHANGED <<config, enclave, now, locks, nonces, stateRoot, lockMerkleTree, dailyVolume,
                 activated, returned>>

GetLock(lockId) == Query([op |-> "getLock", lockId |-> lockId], getLock(lockId))

GetActiveLocks(owner) ==
  Query([op |-> "getActiveLocks", owner |-> owner], getActiveLocks(owner))

GetLockedBalance(owner, asset) ==
  Query([op |-> "getLockedBalance", owner |-> owner, asset |-> asset],
        getLockedBalance(owner, asset))

GetStateRoot == Query([op |-> "getStateRoot"], getStateRoot)

GetEnclavePublicKey == Query([op |-> "getEnclavePublicKey"], getEnclavePublicKey)

GetEnclaveId == Query([op |-> "getEnclaveId"], getEnclaveId)

GenerateBootAttestation ==
  Query([op |-> "generateBootAttestation"], generateBootAttestation)

\* The queries are exercised on engines that hold up to MaxLocks locks of two
\* owners over two assets that differ in their kind alone, Pending, Active
\* or Cancelled.
Erc20Asset == [chainId |-> 1, assetType |-> "erc20", contractAddress |-> TokenContract, tokenId |-> 0]
Erc721Asset == [chainId |-> 1, assetType |-> "erc721", contractAddress |-> TokenContract, tokenId |-> 0]

QueryAssets == {Erc20Asset, Erc721Asset}

QueryRequests ==
  { [ owner |-> owner, asset |-> asset, amount |-> 1, expiresIn |-> EngineConfig.minLockDuration,
      fulfillmentCondition |-> Condition(NativeAsset) ] :
      owner \in {"0xAB", "0xcd"}, asset \in QueryAssets }

QueryNext ==
  \/ \E request \in QueryRequests : CreateLock(request)
  \/ \E i \in 1..Len(locks) :
       SignLock([ lockId |-> locks[i].id,
                  signature |-> signHash(typedDataHash(locks[i]),
                                         toLowerCase(locks[i].owner)) ])
  \/ \E i \in 1..Len(locks) :
       CancelLock(locks[i].id,
                  signHash(CancelMessage(locks[i].id), toLowerCase(locks[i].owner)))
  \/ \E i \in 1..Len(locks) : GetLock(locks[i].id)
  \/ GetLock(UnknownLockId)
  \/ \E owner \in {"0xab", "0xcd"} : GetActiveLocks(owner)
  \/ \E owner \in {"0xab", "0xcd"} : \E asset \in QueryAssets : GetLockedBalance(owner, asset)
  \/ GetStateRoot
  \/ GetEnclavePublicKey
  \/ GetEnclaveId
  \/ GenerateBootAttestation

QuerySpec == Init /\ [][QueryNext]_vars

\* ------------------------------------------------------------------------
\* Admission: engines constructed with different configuration inputs, and
\* createLock called with every combination of source asset, amount, duration
\* and target asset around the limits; signLock with the owner's
\* signature makes locks Active, the clock moves on to the next day.
\* ------------------------------------------------------------------------
\* new CredibleCommitmentMachine()
NoOverride == [f \in {} |-> 0]
\* new CredibleCommitmentMachine({ riskLimits: { maxConcurrentLocks: 2 } })
ConcurrentLocksOnly == [riskLimits |-> [maxConcurrentLocks |-> 2]]
\* the same with every other sub-field of riskLimits spelled out
AllLimits == [riskLimits |-> [EngineConfig.riskLimits EXCEPT !.maxConcurrentLocks = 2]]

ConfigInputs == {NoOverride, ConcurrentLocksOnly, AllLimits}

AdmissionInit ==
  /\ config \in { Construct(input) : input \in ConfigInputs }
  /\ now = 0
  /\ enclave = NewIdentity(0)
  /\ locks = << >>
  /\ nonces = [o \in Owners |-> 0]
  /\ stateRoot = ZeroHash
  /\ lockMerkleTree = EmptyTree
  /\ dailyVolume = [d \in Dates |-> 0]
  /\ activated = << >>
  /\ last = [op |-> "init", err |-> "ok"]
  /\ response = NoResponse
  /\ returned = [userOps |-> EmptyBag, cancellations |-> EmptyBag]

\* one owner asks with every combination; a second owner with one request
AdmissionRequests ==
  { [ owner |-> "0xAB", asset |-> asset, amount |-> amount, expiresIn |-> expiresIn,
      fulfillmentCondition |-> Condition(targetAsset) ] :
      asset \in {NativeAsset, UnsupportedChainAsset},
      amount \in 0..(EngineConfig.riskLimits.maxSingleLockAmount + 1),
      expiresIn \in (EngineConfig.minLockDuration - 1)..(EngineConfig.maxLockDuration + 1),
      targetAsset \in {NativeAsset, NoContractAsset} }
  \cup
  { [ owner |-> "0xcd", asset |-> NativeAsset,
      amount |-> EngineConfig.riskLimits.maxSingleLockAmount,
      expiresIn |-> EngineConfig.minLockDuration,
      fulfillmentCondition |-> Condition(NativeAsset) ] }

AdmissionNext ==
  \/ \E request \in AdmissionRequests : CreateLock(request)
  \/ \E i \in 1..Len(locks) :
       SignLock([ lockId |-> locks[i].id,
                  signature |-> signHash(typedDataHash(locks[i]),
                                         toLowerCase(locks[i].owner)) ])
  \/ Tick

AdmissionSpec == AdmissionInit /\ [][AdmissionNext]_vars

\* ------------------------------------------------------------------------
\* The MerkleTree class on its own: a tree that starts empty and is driven
\* through addLeaf, removeLeaf and getProof with leaves from a small set,
\* repeated leaves included.  The tree is held in lockMerkleTree; response
\* holds what the last call was given and returned.
\* ------------------------------------------------------------------------
TreeLeaves == { keccak256(<<n>>) : n \in 1..3 }

TreeInit ==
  /\ config = EngineConfig
  /\ now = 0
  /\ enclave = NewIdentity(0)
  /\ locks = << >>
  /\ nonces = [o \in Owners |-> 0]
  /\ stateRoot = ZeroHash
  /\ lockMerkleTree = NewMerkleTree(<< >>)
  /\ dailyVolume = [d \in Dates |-> 0]
  /\ activated = << >>
  /\ last = [op |-> "init", err |-> "ok"]
  /\ response = NoResponse
  /\ returned = [userOps |-> EmptyBag, cancellations |-> EmptyBag]

TreeUnchanged ==
  UNCHANGED <<config, enclave, now, locks, nonces, stateRoot, dailyVolume, activated, returned>>

TreeAddLeaf(leaf) ==
  /\ Len(lockMerkleTree.leaves) < MaxLeaves
  /\ lockMerkleTree' = addLeaf(lockMerkleTree, leaf)
  /\ last' = [op |-> "addLeaf", err |-> "ok"]
  /\ response' = [op |-> "addLeaf", leaf |-> leaf]
  /\ TreeUnchanged

TreeRemoveLeaf(leaf) ==
  /\ lockMerkleTree' = removeLeaf(lockMerkleTree, leaf)
  /\ last' = [op |-> "removeLeaf", err |-> "ok"]
  /\ response' = [ op |-> "removeLeaf", leaf |-> leaf,
                   result |-> removeLeafReturns(lockMerkleTree, leaf) ]
  /\ TreeUnchanged

TreeGetProof(index) ==
  /\ lockMerkleTree' = lockMerkleTree
  /\ last' = [op |-> "getProof", err |-> "ok"]
  /\ response' = [ op |-> "getProof", index |-> index,
                   proof |-> getProof(lockMerkleTree, index) ]
  /\ TreeUnchanged

TreeNext ==
  \/ \E leaf \in TreeLeaves : TreeAddLeaf(leaf)
  \/ \E leaf \in TreeLeaves : TreeRemoveLeaf(leaf)
  \/ \E index \in 0..(Len(lockMerkleTree.leaves) - 1) : TreeGetProof(index)

TreeSpec == TreeInit /\ [][TreeNext]_vars

\* ------------------------------------------------------------------------
\* Properties
\* ------------------------------------------------------------------------
IsLeaf(lockId) == \E k \in 1..Len(lockMerkleTree.leaves) : lockMerkleTree.leaves[k] = lockId

ActiveLocksOf(owner) ==
  SelectSeq(locks, LAMBDA l :
    toLowerCase(l.owner) = toLowerCase(owner) /\ l.status = "ACTIVE")

StatusOf(lockId) == locks[LockIndex(lockId)].status

\* C1: a lock's id is a leaf of the Merkle index iff the lock is Active
C1_LeafIffActive ==
  \A i \in 1..Len(locks) : IsLeaf(locks[i].id) <=> locks[i].status = "ACTIVE"

\* C2: the stored state root is the root of a tree built from scratch over
\* the ids of the Active locks in activation order
C2_StateRootFromScratch ==
  LET activeIds == SelectSeq(activated, LAMBDA id : StatusOf(id) = "ACTIVE")
  IN stateRoot =
       getRoot([ leaves |-> activeIds,
                 layers |-> IF Len(activeIds) > 0 THEN buildTree(activeIds) ELSE << >> ])

AllowedEdges ==
  { <<"PENDING", "ACTIVE">>, <<"PENDING", "CANCELLED">>, <<"ACTIVE", "FULFILLED">>,
    <<"ACTIVE", "CANCELLED">>, <<"ACTIVE", "EXPIRED">> }

\* C3: every status change is one of the five permitted edges (so none leaves
\* Fulfilled, Expired or Cancelled), and no lock is ever Settled
C3_StatusTransitions ==
  [][ /\ \A j \in 1..Len(locks') : locks'[j].status # "SETTLED"
      /\ \A i \in 1..Len(locks) : \A j \in 1..Len(locks') :
           (locks'[j].id = locks[i].id /\ locks'[j].status # locks[i].status)
             => <<locks[i].status, locks'[j].status>> \in AllowedEdges ]_vars

\* a call on a lock in a terminal status has been refused
C3_Witness ==
  /\ last = [op |-> "cancelLock", err |-> "InvalidLockStatus"]
  /\ \E i \in 1..Len(locks) : locks[i].status = "FULFILLED"
  /\ \E i \in 1..Len(locks) : locks[i].status = "CANCELLED"

\* C4: no owner has more Active locks than maxConcurrentLocks
C4_ConcurrentLimit ==
  \A o \in Owners : Len(ActiveLocksOf(o)) <= config.riskLimits.maxConcurrentLocks

\* C5: no owner's Active amounts sum to more than maxTotalLockedPerAccount
C5_TotalLockedLimit ==
  \A o \in Owners :
    SumAmounts(ActiveLocksOf(o)) <= config.riskLimits.maxTotalLockedPerAccount

\* C6: the volume recorded for a date never exceeds maxDailyVolume
C6_DailyVolumeLimit ==
  \A d \in Dates : dailyVolume[d] <= config.riskLimits.maxDailyVolume

LocksOf(owner) ==
  SelectSeq(locks, LAMBDA l : toLowerCase(l.owner) = toLowerCase(owner))

LazyExpiry ==
  /\ last' = [op |-> "verifyFulfillment", err |-> "LockExpired"]
  /\ UNCHANGED <<nonces, stateRoot, lockMerkleTree, dailyVolume>>
  /\ \E i \in 1..Len(locks) :
       /\ locks[i].status = "ACTIVE"
       /\ locks' = [locks EXCEPT ![i].status = "EXPIRED"]

\* C8: a call that fails leaves the whole enclave state unchanged, except
\* for the lazy expiry of verifyFulfillment
C8_FailureAtomic ==
  [][ last'.err # "ok" => (UNCHANGED enclaveState \/ LazyExpiry) ]_vars

\* C9: a createLock that fails inserts no lock, takes no nonce and leaves
\* the Merkle index, the state root and the daily volume unchanged
C9_CreateLockFailure ==
  [][ (last'.op = "createLock" /\ last'.err # "ok") => UNCHANGED enclaveState ]_vars

\* a createLock refused by its last check (the target asset), with a lock
\* already stored and a nonce already given out
C9_Witness ==
  /\ last = [op |-> "createLock", err |-> "ContractAddressRequired"]
  /\ Len(locks) > 0
  /\ nonces["0xab"] > 0

C11_WrongStatusRejected ==
  [][ ~(last'.err = "InvalidLockStatus" /\ UNCHANGED enclaveState) =>
        \A i \in 1..Len(locks) :
          /\ (last'.op = "signLock" /\ locks[i].status # "PENDING") =>
               \A signature \in SignaturesFor(i) \cup {locks[i].userSignature} :
                 ~SignLock([lockId |-> locks[i].id, signature |-> signature])
          /\ (last'.op = "verifyFulfillment" /\ locks[i].status # "ACTIVE") =>
               \A proof \in Proofs :
                 ~VerifyFulfillment([lockId |-> locks[i].id, fulfillmentProof |-> proof])
          /\ ( /\ last'.op = "cancelLock"
               /\ locks[i].status \in {"FULFILLED", "EXPIRED", "CANCELLED"} ) =>
               \A signature \in SignaturesFor(i) :
                 ~CancelLock(locks[i].id, signature) ]_vars

\* the owner's valid signature was replayed on the lock it activated
C11_Witness ==
  /\ last = [op |-> "signLock", err |-> "InvalidLockStatus"]
  /\ \E i \in 1..Len(locks) :
       /\ locks[i].status = "ACTIVE"
       /\ recoverAddress(typedDataHash(locks[i]), locks[i].userSignature)
            = toLowerCase(locks[i].owner)
  /\ \A i \in 1..Len(locks) : locks[i].status = "ACTIVE"

\* the step is a call of op (the clock stands still during a call)
Called(op) == last'.op = op /\ now' = now

WellFormedProof == [transactionHash |-> 66, blockHash |-> 66]

\* C12: verifyFulfillment on an Active lock after its expiry fails with
\* LockExpired and leaves the lock Expired, its id out of the Merkle index
\* and the state root equal to the root of the index without it
C12_LazyExpiryRemovesLeaf ==
  [][ \A i \in 1..Len(locks) :
        ( /\ last'.op = "verifyFulfillment"
          /\ locks[i].status = "ACTIVE"
          /\ getSecureTime > locks[i].expiresAt
          /\ \E proof \in Proofs :
               VerifyFulfillment([lockId |-> locks[i].id, fulfillmentProof |-> proof]) )
        => /\ last'.err = "LockExpired"
           /\ locks'[i].status = "EXPIRED"
           /\ \A k \in 1..Len(lockMerkleTree'.leaves) :
                lockMerkleTree'.leaves[k] # locks[i].id
           /\ stateRoot' = getRoot(removeLeaf(lockMerkleTree, locks[i].id)) ]_vars

\* the expiry comparison of one cleanupExpiredLocks step: exactly the Active
\* locks with now > expiresAt change status
CleanupComparesStrictly ==
  Called("cleanupExpiredLocks") =>
    \A i \in 1..Len(locks) :
      locks'[i].status # locks[i].status
        <=> (locks[i].status = "ACTIVE" /\ getSecureTime > locks[i].expiresAt)

\* a verifyFulfillment step on the Active lock at position i with a
\* well-formed proof
FulfillmentStep(i) ==
  /\ last'.op = "verifyFulfillment"
  /\ locks[i].status = "ACTIVE"
  /\ VerifyFulfillment([lockId |-> locks[i].id, fulfillmentProof |-> WellFormedProof])

RootOf(leaves) ==
  getRoot([leaves |-> leaves, layers |-> IF Len(leaves) > 0 THEN buildTree(leaves) ELSE << >>])

\* C14: per lock at most one settlement UserOperation is ever returned, only
\* by a verifyFulfillment that found the lock Active with now <= expiresAt;
\* none for a lock that is Cancelled or Expired or has a cancellation
\* attestation; no cancellation attestation for a Fulfilled lock
C14_NoDoubleRelease ==
  [][ /\ \A i \in 1..Len(locks') :
           /\ CopiesIn(locks'[i].id, returned'.userOps) <= 1
           /\ locks'[i].status \in {"CANCELLED", "EXPIRED"}
                => CopiesIn(locks'[i].id, returned'.userOps) = 0
           /\ CopiesIn(locks'[i].id, returned'.cancellations) > 0
                => CopiesIn(locks'[i].id, returned'.userOps) = 0
           /\ locks'[i].status = "FULFILLED"
                => CopiesIn(locks'[i].id, returned'.cancellations) = 0
      /\ \A i \in 1..Len(locks) :
           CopiesIn(locks[i].id, returned'.userOps) > CopiesIn(locks[i].id, returned.userOps)
             => /\ last' = [op |-> "verifyFulfillment", err |-> "ok"]
                /\ response'.op = "verifyFulfillment"
                /\ locks[i].status = "ACTIVE"
                /\ getSecureTime <= locks[i].expiresAt ]_vars

\* one lock was settled, another cancelled, and a second verifyFulfillment
\* was refused
C14_Witness ==
  /\ last = [op |-> "verifyFulfillment", err |-> "InvalidLockStatus"]
  /\ \E i \in 1..Len(locks) : CopiesIn(locks[i].id, returned.userOps) = 1
  /\ \E i \in 1..Len(locks) : CopiesIn(locks[i].id, returned.cancellations) = 1

\* C15: cancelLock on a Pending or Active lock with the owner's signature
\* over the cancellation message of its id succeeds: the lock is Cancelled,
\* its id is no leaf, the state root is the root of the remaining index, and
\* the attestation returned has operation CANCEL and the enclave's id
C15_CancelSucceeds ==
  [][ last'.op = "cancelLock" =>
        \A i \in 1..Len(locks) :
          ( /\ locks[i].status \in {"PENDING", "ACTIVE"}
            /\ CancelLock(locks[i].id,
                          signHash(CancelMessage(locks[i].id), toLowerCase(locks[i].owner))) )
          => LET remaining == SelectSeq(lockMerkleTree.leaves, LAMBDA id : id # locks[i].id)
             IN /\ last'.err = "ok"
                /\ locks'[i].status = "CANCELLED"
                /\ lockMerkleTree'.leaves = remaining
                /\ stateRoot' = RootOf(remaining)
                /\ response'.operation = "CANCEL"
                /\ response'.enclaveId = EnclaveId ]_vars

\* an Active lock has just been cancelled while another lock stays a leaf
C15_Witness ==
  /\ last = [op |-> "cancelLock", err |-> "ok"]
  /\ response.op = "cancelLock"
  /\ Len(lockMerkleTree.leaves) = 1
  /\ \E i \in 1..Len(locks) :
       /\ locks[i].status = "CANCELLED"
       /\ locks[i].ccmSignature # NoSignature
       /\ response.signature.hash = CancelMessage(locks[i].id)

\* C16: the Commitment a successful signLock returns carries the Merkle root
\* computed after the lock's id was inserted, not the root from before
C16_CommitmentRootAfterInsert ==
  [][ (Called("signLock") /\ last'.err = "ok") =>
        /\ response'.op = "signLock"
        /\ response'.commitment.stateRoot = RootOf(lockMerkleTree'.leaves)
        /\ response'.commitment.stateRoot = stateRoot'
        /\ \E k \in 1..Len(lockMerkleTree'.leaves) :
             lockMerkleTree'.leaves[k] = response'.commitment.lockId
        /\ \A k \in 1..Len(lockMerkleTree.leaves) :
             lockMerkleTree.leaves[k] # response'.commitment.lockId
        /\ response'.commitment.stateRoot # stateRoot ]_vars

\* a second lock was signed into a non-empty index
C16_Witness ==
  /\ last = [op |-> "signLock", err |-> "ok"]
  /\ response.op = "signLock"
  /\ Len(lockMerkleTree.leaves) = 2
  /\ lockMerkleTree.leaves[2] = response.commitment.lockId
  /\ response.commitment.stateRoot = stateRoot

\* C17: cleanupExpiredLocks moves exactly the Active locks with
\* now > expiresAt to Expired, removes their ids from the index, recomputes
\* the state root, touches nothing else and returns their number; applied
\* again at the same clock it finds nothing to move
C17_CleanupExact ==
  [][ Called("cleanupExpiredLocks") =>
        LET due == { i \in 1..Len(locks) :
                       locks[i].status = "ACTIVE" /\ getSecureTime > locks[i].expiresAt }
            remaining == SelectSeq(lockMerkleTree.leaves,
                                   LAMBDA id : \A i \in due : locks[i].id # id)
            after == [locks |-> locks', tree |-> lockMerkleTree', cleaned |-> 0]
        IN /\ locks' = [ i \in 1..Len(locks) |->
                           IF i \in due THEN [locks[i] EXCEPT !.status = "EXPIRED"]
                                        ELSE locks[i] ]
           /\ lockMerkleTree'.leaves = remaining
           /\ stateRoot' = RootOf(remaining)
           /\ response' = [op |-> "cleanupExpiredLocks", cleaned |-> Cardinality(due)]
           /\ UNCHANGED <<nonces, dailyVolume>>
           /\ CleanupFrom(1, after) = after ]_vars

\* a sweep moved one lock and left an Active one that is not yet due
C17_Witness ==
  /\ last = [op |-> "cleanupExpiredLocks", err |-> "ok"]
  /\ response = [op |-> "cleanupExpiredLocks", cleaned |-> 1]
  /\ \E i \in 1..Len(locks) : locks[i].status = "EXPIRED" /\ ~IsLeaf(locks[i].id)
  /\ \E i \in 1..Len(locks) : locks[i].status = "ACTIVE" /\ IsLeaf(locks[i].id)

\* C18: a cancelLock request made by the client SDK with the owner's signer,
\* for a lock that is Pending or Active, is accepted and the lock becomes
\* Cancelled
C18_RageQuitAccepted ==
  [][ last'.op = "cancelLock" =>
        \A i \in 1..Len(locks) :
          ( /\ locks[i].status \in {"PENDING", "ACTIVE"}
            /\ CancelLock(locks[i].id,
                          ClientCancelRequest(locks[i].id, toLowerCase(locks[i].owner)).signature) )
          => (last'.err = "ok" /\ locks'[i].status = "CANCELLED") ]_vars

\* C19: under periodic maintenance a lock that is Pending eventually leaves
\* Pending
C19_PendingReaped ==
  \A k \in 1..MaxLocks :
    (Len(locks) >= k /\ locks[k].status = "PENDING")
      ~> (Len(locks) >= k /\ locks[k].status # "PENDING")

\* C20: under periodic maintenance and an advancing clock every Active lock
\* eventually is Fulfilled or Cancelled, or is Expired with its id out of the
\* Merkle index
C20_ActiveEventuallyReleased ==
  \A k \in 1..MaxLocks :
    (Len(locks) >= k /\ locks[k].status = "ACTIVE")
      ~> ( /\ Len(locks) >= k
           /\ \/ locks[k].status \in {"FULFILLED", "CANCELLED"}
              \/ locks[k].status = "EXPIRED" /\ ~IsLeaf(locks[k].id) )

\* C21: in every non-empty tree, for every leaf index (the last index of an
\* odd layer included), the proof getProof returns verifies against the root
C21_ProofVerifies ==
  \A index \in 0..(Len(lockMerkleTree.leaves) - 1) :
    verifyProof(lockMerkleTree.leaves[index + 1], getProof(lockMerkleTree, index),
                getRoot(lockMerkleTree))

\* the leaves without the first occurrence of leaf
WithoutFirst(leaves, leaf) ==
  IF \E k \in 1..Len(leaves) : leaves[k] = leaf
  THEN LET first == CHOOSE k \in 1..Len(leaves) :
                      leaves[k] = leaf /\ \A j \in 1..(k - 1) : leaves[j] # leaf
       IN SubSeq(leaves, 1, first - 1) \o SubSeq(leaves, first + 1, Len(leaves))
  ELSE leaves

\* C30: after any addLeaf and removeLeaf calls the root is the root of a tree
\* built from scratch over the current leaves; addLeaf appends, removeLeaf
\* takes out the first match and shifts the rest down; an empty tree, also
\* one emptied by removals, has the all-zero root; removeLeaf of an absent
\* leaf returns false and changes nothing
C30_RootFromScratch ==
  [][ /\ getRoot(lockMerkleTree') = getRoot(NewMerkleTree(lockMerkleTree'.leaves))
      /\ lockMerkleTree'.leaves = << >> => getRoot(lockMerkleTree') = ZeroHash
      /\ last'.op = "addLeaf" =>
           lockMerkleTree'.leaves = Append(lockMerkleTree.leaves, response'.leaf)
      /\ last'.op = "removeLeaf" =>
           LET present == \E k \in 1..Len(lockMerkleTree.leaves) :
                            lockMerkleTree.leaves[k] = response'.leaf
           IN /\ response'.result = present
              /\ lockMerkleTree'.leaves = WithoutFirst(lockMerkleTree.leaves, response'.leaf)
              /\ ~present => lockMerkleTree' = lockMerkleTree ]_vars

\* a tree of three leaves, two of them equal, has lost its first leaf
C30_Witness ==
  /\ last.op = "removeLeaf"
  /\ response.result = TRUE
  /\ Len(lockMerkleTree.leaves) = 2
  /\ lockMerkleTree.leaves[2] = response.leaf

\* the four bytes of a function selector, as one word
SelectorWord(selector) ==
  CASE selector = "0xb61d27f6" -> 21
    [] selector = "0xa9059cbb" -> 22
    [] OTHER -> 29

\* execute(dest, value, func) call data: the selector followed by the
\* encoded arguments
ExecuteCallData(dest, value, func) ==
  <<SelectorWord("0xb61d27f6")>>
    \o abiEncode(<<"address", "uint256", "bytes">>, <<dest, value, func>>)

\* transfer(recipient, amount) call data of an ERC-20 token
TransferCallData(recipient, amount) ==
  <<SelectorWord("0xa9059cbb")>>
    \o abiEncode(<<"address", "uint256">>, <<recipient, amount>>)

\* C22: the settlement UserOp a successful verifyFulfillment returns for a
\* native or ERC-20 lock has the owner as sender, the lock's nonce, the
\* user's signature followed by the enclave's signature over the UserOp hash
\* as its 130-byte signature, and call data that starts with the selector
\* 0xb61d27f6 followed by the encoded (recipient, amount, empty) for native
\* and (token contract, 0, transfer(recipient, amount)) for ERC-20
C22_SettlementUserOp ==
  response.op = "verifyFulfillment" =>
    LET userOp == response.settlementUserOp
        lock == locks[LockIndex(response.commitment.lockId)]
        recipient == lock.fulfillmentCondition.recipient
    IN lock.asset.assetType \in {"native", "erc20"} =>
         /\ userOp.sender = lock.owner
         /\ userOp.nonce = lock.nonce
         /\ Len(userOp.signature) = 2
         /\ userOp.signature[1] = lock.userSignature
         /\ userOp.signature[2] = signHash(hashUserOp(userOp, lock.asset.chainId), EnclaveKey)
         /\ lock.asset.assetType = "native" =>
              userOp.callData = ExecuteCallData(recipient, lock.amount, << >>)
         /\ lock.asset.assetType = "erc20" =>
              userOp.callData = ExecuteCallData(lock.asset.contractAddress, 0,
                                                TransferCallData(recipient, lock.amount))

\* C26: a validator deployed with the enclave's address as ccmPublicKey
\* accepts the signature of every returned settlement UserOp for the hash of
\* that UserOp
C26_ValidatorAcceptsSettlement ==
  response.op = "verifyFulfillment" =>
    LET userOp == response.settlementUserOp
    IN validateDualSignature(privateKeyToAddress(EnclaveKey),
                             hashUserOp(userOp, response.commitment.chainId),
                             userOp.signature) = "true"

\* every check of createLock other than the amount and the duration passes
OtherChecksPass(request) ==
  /\ validateAsset(request.asset) = "ok"
  /\ validateRiskLimits(request.owner, request.amount) = "ok"
  /\ validateAsset(request.fulfillmentCondition.targetAsset) = "ok"

AmountInRange(amount) ==
  0 < amount /\ amount <= config.riskLimits.maxSingleLockAmount

DurationInRange(expiresIn) ==
  config.minLockDuration <= expiresIn /\ expiresIn <= config.maxLockDuration

\* the engine's riskLimits hold every limit
LimitsConfigured ==
  DOMAIN config.riskLimits = DOMAIN EngineConfig.riskLimits

\* C23: in an engine whose riskLimits hold every limit, with every other
\* check passing, createLock accepts a request exactly when
\* 0 < amount <= maxSingleLockAmount and
\* minLockDuration <= expiresIn <= maxLockDuration (amount 1 and the limit
\* are accepted, 0 and the limit + 1 rejected; likewise the two durations);
\* a lock createLock has just created lies within these ranges
C23_AmountDurationBounds ==
  /\ [](LimitsConfigured =>
          \A request \in AdmissionRequests :
            OtherChecksPass(request) =>
              (CreateLockError(request) = "ok"
                 <=> AmountInRange(request.amount) /\ DurationInRange(request.expiresIn)))
  /\ [][ (LimitsConfigured /\ Called("createLock") /\ last'.err = "ok") =>
           /\ Len(locks') = Len(locks) + 1
           /\ response'.lock = locks'[Len(locks')]
           /\ AmountInRange(response'.lock.amount)
           /\ DurationInRange(response'.lock.expiresAt - response'.lock.lockedAt) ]_vars

\* createLock has accepted the largest amount for the longest duration
C23_Witness ==
  /\ LimitsConfigured
  /\ last = [op |-> "createLock", err |-> "ok"]
  /\ response.op = "createLock"
  /\ response.lock.amount = config.riskLimits.maxSingleLockAmount
  /\ response.lock.expiresAt - response.lock.lockedAt = config.maxLockDuration
  /\ response.lock = locks[Len(locks)]

\* the Active amount of an owner
ActiveTotal(owner) ==
  SumAmounts(SelectSeq(locks, LAMBDA l :
    toLowerCase(l.owner) = toLowerCase(owner) /\ l.status = "ACTIVE"))

\* C24: every sub-field of riskLimits has its own default: an engine
\* constructed with only riskLimits.maxConcurrentLocks overridden still
\* enforces the default maxSingleLockAmount, maxTotalLockedPerAccount and
\* maxDailyVolume in createLock
C24_DefaultsPerSubField ==
  [][ (config = Construct(ConcurrentLocksOnly) /\ Called("createLock") /\ last'.err = "ok") =>
        LET lock == response'.lock
        IN /\ lock.amount <= EngineConfig.riskLimits.maxSingleLockAmount
           /\ ActiveTotal(lock.owner) + lock.amount
                <= EngineConfig.riskLimits.maxTotalLockedPerAccount
           /\ dailyVolume[Today] + lock.amount <= EngineConfig.riskLimits.maxDailyVolume ]_vars

\* the number of Active locks of an owner
ActiveCount(owner) ==
  Len(SelectSeq(locks, LAMBDA l :
    toLowerCase(l.owner) = toLowerCase(owner) /\ l.status = "ACTIVE"))

\* the checks createLock makes before the risk limits pass
EarlierChecksPass(request) ==
  /\ validateAsset(request.asset) = "ok"
  /\ validateAmount(request.amount) = "ok"
  /\ validateDuration(request.expiresIn) = "ok"

RiskLimitErrors ==
  {"TooManyConcurrentLocks", "TotalLockedExceedsLimit", "DailyVolumeExceeded"}

Checks(request) ==
  << validateAsset(request.asset),
     validateAmount(request.amount),
     validateDuration(request.expiresIn),
     validateRiskLimits(request.owner, request.amount),
     validateAsset(request.fulfillmentCondition.targetAsset) >>

\* the error of the first failing check in that order
FirstFailure(request) ==
  LET failing == { k \in 1..5 : Checks(request)[k] # "ok" }
  IN IF failing = {} THEN "ok"
     ELSE Checks(request)[CHOOSE k \in failing : \A j \in failing : k <= j]

\* the request a lock was created from
RequestOf(lock) ==
  [ owner |-> lock.owner, asset |-> lock.asset, amount |-> lock.amount,
    expiresIn |-> lock.expiresAt - lock.lockedAt,
    fulfillmentCondition |-> lock.fulfillmentCondition ]

\* C27: createLock checks the source asset, the amount, the duration, the
\* risk limits and the target asset in this order, and the first check that
\* fails alone determines the error, whatever later checks would say; a
\* lock is created only from a request that passes all five, and a rejected
\* createLock changes nothing
C27_ValidationOrder ==
  /\ [](\A request \in AdmissionRequests :
          CreateLockError(request) = FirstFailure(request))
  /\ [][ Called("createLock") =>
           IF last'.err = "ok"
           THEN \A k \in 1..5 : Checks(RequestOf(response'.lock))[k] = "ok"
           ELSE UNCHANGED enclaveState /\ response' = NoResponse ]_vars

\* createLock has rejected a request for its source asset in a state where
\* a request failing all five checks exists
C27_Witness ==
  /\ last = [op |-> "createLock", err |-> "UnsupportedChain"]
  /\ \E request \in AdmissionRequests :
       /\ \A k \in 1..5 : Checks(request)[k] # "ok"
       /\ FirstFailure(request) = last.err

\* signatures that must not activate the lock at position i: by the owner's
\* key over the approval hash of another lock, and by another key over this
\* lock's approval hash
ForeignApprovals(i) ==
     { signHash(typedDataHash(locks[j]), toLowerCase(locks[i].owner)) :
         j \in 1..Len(locks) \ {i} }
  \cup { signHash(typedDataHash(locks[i]), k) :
         k \in Keys \ {toLowerCase(locks[i].owner)} }

ForeignCancellations(i) ==
  { signature \in SignaturesFor(i) :
      \/ signature = MalformedSignature
      \/ toLowerCase(privateKeyToAddress(signature.signer)) # toLowerCase(locks[i].owner)
      \/ signature.hash
           # keccak256(abiEncode(<<"bytes32", "string">>, <<locks[i].id, "CANCEL">>)) }

\* C29: cancelLock on a Pending or Active lock with a signature that does
\* not recover to the owner, a signature over the cancellation message of a
\* different lock included, fails and changes nothing.  Stated by
\* contraposition: a cancelLock step that does not fail on its signature
\* with everything unchanged is no call on a Pending or Active lock with
\* such a signature
C29_BadCancellationRejected ==
  [][ ( /\ Called("cancelLock")
        /\ ~ ( /\ last'.err \in {"InvalidCancellationSignature", "SignatureRecoveryFailed"}
               /\ UNCHANGED enclaveState
               /\ response' = NoResponse
               /\ returned' = returned ) )
      => \A i \in 1..Len(locks) :
           locks[i].status \in {"PENDING", "ACTIVE"} =>
             \A signature \in ForeignCancellations(i) :
               ~CancelLock(locks[i].id, signature) ]_vars

\* cancelLock has just refused a signature on an Active lock that is still
\* a leaf of the tree
C29_Witness ==
  /\ last = [op |-> "cancelLock", err |-> "InvalidCancellationSignature"]
  /\ \E i \in 1..Len(locks) :
       /\ locks[i].status = "ACTIVE"
       /\ \E k \in 1..Len(lockMerkleTree.leaves) : lockMerkleTree.leaves[k] = locks[i].id

\* C31: every stored lock's id is the hash of its own owner, asset hash,
\* amount, nonce and lockedAt; the ids of the stored locks are pairwise
\* distinct; a successful createLock adds an entry and overwrites none, also
\* when the same owner creates twice with the same asset and amount in the
\* same second
C31_UniqueLockIds ==
  /\ [](/\ \A i \in 1..Len(locks) :
             locks[i].id = generateLockId(locks[i].owner, locks[i].asset, locks[i].amount,
                                          locks[i].nonce, locks[i].lockedAt)
        /\ \A i, j \in 1..Len(locks) : i # j => locks[i].id # locks[j].id)
  /\ [][ (Called("createLock") /\ last'.err = "ok") =>
           /\ Len(locks') = Len(locks) + 1
           /\ \A i \in 1..Len(locks) : locks'[i] = locks[i]
           /\ \A i \in 1..Len(locks) : locks[i].id # response'.lock.id ]_vars

\* the same owner has created two locks with the same asset and amount in
\* the same second
C31_Witness ==
  /\ last = [op |-> "createLock", err |-> "ok"]
  /\ Len(locks) = 2
  /\ locks[1].owner = locks[2].owner
  /\ locks[1].asset = locks[2].asset
  /\ locks[1].amount = locks[2].amount
  /\ locks[1].lockedAt = locks[2].lockedAt
  /\ locks[1].id # locks[2].id

\* the four fields of an asset as the canonical hash takes them: the chain,
\* the kind, the contract or zero, the token id or 0
AssetFields(asset) ==
  << asset.chainId,
     asset.assetType,
     IF asset.contractAddress = "" THEN ZeroAddress ELSE toLowerCase(asset.contractAddress),
     asset.tokenId >>

\* C32: the asset hash encodes the chain, the kind, the contract and the
\* token id, so assets that differ in their kind alone have different
\* hashes, and getLockedBalance(owner, asset) is the sum of the amounts of
\* exactly the owner's Active locks whose asset agrees with the queried one
\* in all four fields
C32_AssetHashAndBalance ==
  /\ [](\A a, b \in QueryAssets :
          AssetFields(a) # AssetFields(b) => hashAsset(a) # hashAsset(b))
  /\ [][ last'.op = "getLockedBalance" =>
           response'.result =
             SumAmounts(SelectSeq(locks, LAMBDA l :
               /\ toLowerCase(l.owner) = toLowerCase(response'.call.owner)
               /\ l.status = "ACTIVE"
               /\ AssetFields(l.asset) = AssetFields(response'.call.asset))) ]_vars

QueryOps ==
  { "getLock", "getActiveLocks", "getLockedBalance", "getStateRoot", "getEnclavePublicKey",
    "getEnclaveId", "generateBootAttestation" }

\* C33: getLock, getActiveLocks, getLockedBalance, getStateRoot,
\* getEnclavePublicKey, getEnclaveId and generateBootAttestation change no
\* part of the enclave state, and getActiveLocks(owner) returns exactly the
\* stored locks whose owner is the given one, whatever the case of the
\* letters, and whose status is Active
C33_QueriesReadOnly ==
  [][ last'.op \in QueryOps =>
        /\ UNCHANGED <<config, enclave, locks, nonces, stateRoot, lockMerkleTree, dailyVolume>>
        /\ last'.op = "getActiveLocks" =>
             LET result == response'.result
                 matching == { i \in 1..Len(locks) :
                                 /\ toLowerCase(locks[i].owner) = toLowerCase(response'.call.owner)
                                 /\ locks[i].status = "ACTIVE" }
             IN /\ Len(result) = Cardinality(matching)
                /\ \A i \in matching : \E k \in 1..Len(result) : result[k] = locks[i]
                /\ \A k \in 1..Len(result) : \E i \in matching : result[k] = locks[i]
        /\ last'.op = "getLock" =>
             \/ \E i \in 1..Len(locks) :
                  locks[i].id = response'.call.lockId /\ response'.result = locks[i]
             \/ /\ \A i \in 1..Len(locks) : locks[i].id # response'.call.lockId
                /\ response'.result = Undefined
        /\ last'.op = "getStateRoot" => response'.result = stateRoot
        /\ last'.op = "getEnclaveId" => response'.result = enclave.enclaveId
        /\ last'.op = "getEnclavePublicKey" => response'.result = enclave.publicKey ]_vars

\* getActiveLocks("0xab") has returned the Active lock of owner "0xAB" and
\* left out that owner's other lock, which is not Active
C33_Witness ==
  /\ last.op = "getActiveLocks"
  /\ response.call.owner = "0xab"
  /\ Len(response.result) = 1
  /\ response.result[1].owner = "0xAB"
  /\ \E i \in 1..Len(locks) : locks[i].owner = "0xAB" /\ locks[i].status # "ACTIVE"

\* C34: the identity and the configuration are fixed at initialization: no
\* operation changes the private key, the public address derived from it,
\* the enclaveId, the bootTime or a value of the configuration, and every
\* CCMAttestation (in the commitments of signLock and verifyFulfillment) and
\* every AppAttestation (of cancelLock) issued carries that enclaveId
C34_IdentityFixed ==
  /\ [](/\ enclave = NewIdentity(0)
        /\ enclave.publicKey = privateKeyToAddress(enclave.privateKey)
        /\ config = EngineConfig)
  /\ [][ /\ enclave' = enclave
         /\ config' = config
         /\ (Called("signLock") /\ last'.err = "ok") =>
              response'.commitment.ccmAttestation.enclaveId = enclave.enclaveId
         /\ (Called("verifyFulfillment") /\ last'.err = "ok") =>
              response'.commitment.ccmAttestation.enclaveId = enclave.enclaveId
         /\ (Called("cancelLock") /\ last'.err = "ok") =>
              response'.enclaveId = enclave.enclaveId ]_vars

\* after an activation, a cancellation has been attested under the
\* enclave's id
C34_Witness ==
  /\ last = [op |-> "cancelLock", err |-> "ok"]
  /\ response.op = "cancelLock"
  /\ response.enclaveId = enclave.enclaveId
  /\ Len(activated) > 0
  /\ now > enclave.bootTime

\* signLock has activated the lock at some time
EverActive(lock) == \E k \in 1..Len(activated) : activated[k] = lock.id

\* C35: a stored lock has a userSignature and a ccmSignature exactly if it
\* has ever been Active: an Active, Fulfilled or Expired lock and a lock
\* cancelled after its activation have both, a Pending lock and a lock
\* cancelled while Pending have neither, and no lock has one without the
\* other
C35_SignaturesIffActivated ==
  \A i \in 1..Len(locks) :
    /\ locks[i].userSignature # NoSignature <=> EverActive(locks[i])
    /\ locks[i].ccmSignature # NoSignature <=> EverActive(locks[i])
    /\ locks[i].status = "PENDING" => ~EverActive(locks[i])
    /\ locks[i].status \in {"ACTIVE", "FULFILLED", "EXPIRED"} => EverActive(locks[i])

\* one lock cancelled while Pending, without signatures, next to one
\* cancelled after its activation, with both
C35_Witness ==
  /\ Len(locks) = 2
  /\ \E i, j \in 1..2 :
       /\ locks[i].status = "CANCELLED"
       /\ locks[i].userSignature = NoSignature
       /\ locks[i].ccmSignature = NoSignature
       /\ locks[j].status = "CANCELLED"
       /\ locks[j].userSignature # NoSignature
       /\ locks[j].ccmSignature # NoSignature

\* C36: in every reachable state the stored stateRoot is the current root
\* of the engine's Merkle tree: no operation changes the leaves without
\* refreshing stateRoot, and none changes stateRoot to anything but the
\* tree's root
C36_StateRootIsTreeRoot ==
  stateRoot = getRoot(lockMerkleTree)

\* a cancellation has taken one of two leaves out of the tree; the stored
\* root is the root over the remaining leaf
C36_Witness ==
  /\ last = [op |-> "cancelLock", err |-> "ok"]
  /\ Len(activated) = 2
  /\ Len(lockMerkleTree.leaves) = 1
  /\ stateRoot = getRoot(lockMerkleTree)
  /\ stateRoot # ZeroHash

\* C37: the tree never holds the same lock id twice, every leaf is the id
\* of a stored lock that signLock has activated, and over the whole run a
\* lock's id is added at most once, so removeLeaf, which removes the first
\* match, removes the lock's only leaf
C37_LeavesDistinctActivated ==
  /\ \A k, m \in 1..Len(lockMerkleTree.leaves) :
       k # m => lockMerkleTree.leaves[k] # lockMerkleTree.leaves[m]
  /\ \A k \in 1..Len(lockMerkleTree.leaves) :
       \E i \in 1..Len(locks) :
         /\ locks[i].id = lockMerkleTree.leaves[k]
         /\ EverActive(locks[i])
         /\ locks[i].status # "PENDING"
  /\ \A k, m \in 1..Len(activated) : k # m => activated[k] # activated[m]

\* cleanupExpiredLocks has removed the leaf of one of two activated locks
C37_Witness ==
  /\ last = [op |-> "cleanupExpiredLocks", err |-> "ok"]
  /\ response.op = "cleanupExpiredLocks"
  /\ response.cleaned = 1
  /\ Len(activated) = 2
  /\ Len(lockMerkleTree.leaves) = 1
  /\ \E i \in 1..Len(locks) :
       locks[i].status = "EXPIRED" /\ locks[i].id # lockMerkleTree.leaves[1]

\* C38: signLock never makes a lock Active at a time later than the lock's
\* expiresAt: every lock that becomes Active does so at now <= expiresAt,
\* and no commitment is issued for a lock that has already expired
C38_NoActivationAfterExpiry ==
  [][ /\ \A i \in 1..Len(locks) :
           (locks[i].status = "PENDING" /\ locks'[i].status = "ACTIVE") =>
             getSecureTime <= locks[i].expiresAt
      /\ (Called("signLock") /\ last'.err = "ok") =>
           getSecureTime <= response'.commitment.expiresAt ]_vars

\* what createLock fixes of a lock
CreatedFields(lock) ==
  << lock.id, lock.owner, lock.asset, lock.amount, lock.nonce, lock.lockedAt, lock.expiresAt,
     lock.fulfillmentCondition >>

\* C39: the id, owner, asset, amount, nonce, lockedAt, expiresAt
\* (= lockedAt + expiresIn) and fulfillment condition of a lock never change
\* after its creation; signLock, verifyFulfillment and cancelLock change the
\* status and signatures of at most the one lock they act on, and
\* cleanupExpiredLocks the status alone of the locks it expires; no lock is
\* ever removed from the map, and createLock leaves the stored locks as
\* they are
C39_CreatedFieldsImmutable ==
  [][ /\ Len(locks') >= Len(locks)
      /\ \A i \in 1..Len(locks) : CreatedFields(locks'[i]) = CreatedFields(locks[i])
      /\ last'.op \in {"signLock", "verifyFulfillment", "cancelLock"} =>
           /\ Len(locks') = Len(locks)
           /\ \A i, j \in 1..Len(locks) :
                (locks'[i] # locks[i] /\ locks'[j] # locks[j]) => i = j
           /\ (Called(last'.op) /\ last'.err = "ok" /\ last'.op # "cancelLock") =>
                \A i \in 1..Len(locks) :
                  locks'[i] # locks[i] => locks[i].id = response'.commitment.lockId
      /\ last'.op = "cleanupExpiredLocks" =>
           /\ Len(locks') = Len(locks)
           /\ \A i \in 1..Len(locks) :
                locks'[i] = locks[i] \/ locks'[i] = [locks[i] EXCEPT !.status = "EXPIRED"]
      /\ (Called("createLock") /\ last'.err = "ok") =>
           /\ \A i \in 1..Len(locks) : locks'[i] = locks[i]
           /\ response'.lock.lockedAt = getSecureTime
           /\ \E request \in Requests :
                /\ RequestOf(response'.lock) = request
                /\ response'.lock.expiresAt = response'.lock.lockedAt + request.expiresIn ]_vars

\* a lock created at time 0 has been signed, fulfilled later, and still has
\* the fields createLock gave it, next to a second lock that is untouched
C39_Witness ==
  /\ last = [op |-> "verifyFulfillment", err |-> "ok"]
  /\ now > 0
  /\ Len(locks) = 2
  /\ \E i, j \in 1..2 :
       /\ locks[i].status = "FULFILLED"
       /\ locks[i].lockedAt = 0
       /\ locks[i].id = generateLockId(locks[i].owner, locks[i].asset, locks[i].amount,
                                       locks[i].nonce, locks[i].lockedAt)
       /\ locks[j].status = "PENDING"
       /\ locks[j].userSignature = NoSignature

====
